---- MODULE Spec2Model ----
(***************************************************************************)
(* Model of the Insights panel (src/app/components/Insights.tsx).          *)
(*                                                                         *)
(* Program state is the four useState cells of the component.  The two     *)
(* remote calls (getAIInsights, generateInsightAnswer) are modelled as     *)
(* sets of outstanding promises; each promise settles in a separate step,  *)
(* which runs the continuation after the await.  All state updates of one  *)
(* continuation are applied in one step (a single-threaded event loop).    *)
(*                                                                         *)
(* handleActionClick reads aiAnswers from the closure of the last render.  *)
(* Entries are added or removed only by click handlers, whose updates are  *)
(* flushed before the next click event is dispatched, so the closure's     *)
(* view of which ids are present equals the current state.                 *)
(***************************************************************************)
EXTENDS Integers, Sequences, FiniteSets, TLC

\* ---------------------------------------------------------------- bounds
MaxLoads    == 2   \* loadInsights invocations (mount + re-invocations)
MaxCalls    == 2   \* generateInsightAnswer calls issued
MaxInsights == 2   \* length of a list returned by getAIInsights
MaxUserCalls == 3  \* checkUser invocations

\* ------------------------------------------------------------ data model
\* lastUpdated: useState<Date | null>(null); a Date is a positive tick.
Null == 0

\* InsightData records the fetcher can return.  `action` is optional: it is
\* absent (undefined) in NoAct, the empty string in EmptyAct.  NoAct and
\* EmptyAct are two versions of the card with id "3".
SaveMore == [id |-> "1", type |-> "tip", title |-> "Save more",
             message |-> "m1", action |-> "See how"]

Dining == [id |-> "2", type |-> "warning", title |-> "Dining up",
           message |-> "m2", action |-> "Why"]

NoAct == [id |-> "3", type |-> "success", title |-> "On track",
          message |-> "m3"]

EmptyAct == [id |-> "3", type |-> "info", title |-> "Note",
             message |-> "m4", action |-> ""]

Catalogue == {SaveMore, Dining, NoAct, EmptyAct}

\* Every list getAIInsights can resolve with: length 0..MaxInsights, ids
\* unique within a list (they are the React keys of the cards, line 161).
FetchResults ==
  {l \in UNION {[1..n -> Catalogue] : n \in 0..MaxInsights} :
     \A j, k \in 1..Len(l) : l[j].id = l[k].id => j = k}

\* Strings generateInsightAnswer can resolve with.
AnswerTexts == {"Try the 50/30/20 rule.", "Cook at home."}

ApologyTextEmpty == ""

ApologyText == "Sorry, I was unable to generate a detailed answer. Please try again."

\* The synthetic list set in the catch branch of loadInsights.
FallbackInsightsNoAction ==
  << [id |-> "fallback-1", type |-> "info",
      title |-> "AI Temporarily Unavailable",
      message |-> "We're working to restore AI insights. Please check back soon."] >>

FallbackInsights ==
  << [id |-> "fallback-1", type |-> "info",
      title |-> "AI Temporarily Unavailable",
      message |-> "We're working to restore AI insights. Please check back soon.",
      action |-> "Try again later"] >>

Ids == {i.id : i \in Catalogue} \cup {"fallback-1"}

\* ----------------------------------------------------------------- state
VARIABLES
  insights,     \* useState<InsightData[]>([])
  isLoading,    \* useState(true)
  lastUpdated,  \* useState<Date | null>(null)
  aiAnswers,    \* useState<AIAnswer[]>([])
  fetches,      \* outstanding getAIInsights() promises (call numbers)
  nFetch,       \* getAIInsights() calls issued so far
  genCalls,     \* outstanding generateInsightAnswer() promises
  nGen,         \* generateInsightAnswer() calls issued so far
  clicks,       \* history: per id, handleActionClick runs that passed line 53
  lastFetch,    \* history: how the fetch that settled last came back
  users,        \* rows of the user table behind db.user, in insertion order
  userCalls     \* checkUser invocations, in the order they were made

panelVars == <<insights, isLoading, lastUpdated, aiAnswers,
               fetches, nFetch, genCalls, nGen, clicks, lastFetch>>

userVars == <<users, userCalls>>

vars == <<panelVars, userVars>>

\* --------------------------------------------------------------- helpers
\* JS truthiness of insight.action: undefined and "" are falsy.
HasActionNoGuard(insight) == TRUE

HasAction(insight) ==
  "action" \in DOMAIN insight /\ insight.action # ""

\* aiAnswers.find((a) => a.insightId === id) is not undefined
HasAnswerNever(answers, id) == FALSE

HasAnswer(answers, id) ==
  \E k \in 1..Len(answers) : answers[k].insightId = id

\* prev.filter((a) => a.insightId !== id)
RemoveAnswerKeep(prev, id) == prev

RemoveAnswerReset(prev, id) ==
  [k \in 1..Len(prev) |->
     IF prev[k].insightId = id
     THEN [prev[k] EXCEPT !.answer = "", !.isLoading = TRUE]
     ELSE prev[k]]

RemoveAnswer(prev, id) ==
  SelectSeq(prev, LAMBDA a : a.insightId # id)

\* [...prev, {insightId: id, answer: '', isLoading: true}]
AddLoadingResolved(prev, id) ==
  Append(prev, [insightId |-> id, answer |-> "cached", isLoading |-> FALSE])

AddLoading(prev, id) ==
  Append(prev, [insightId |-> id, answer |-> "", isLoading |-> TRUE])

\* prev.map((a) => a.insightId === id ? {...a, answer, isLoading: false} : a)
SetAnswerUpsert(prev, id, answer) ==
  IF \E k \in 1..Len(prev) : prev[k].insightId = id
  THEN [k \in 1..Len(prev) |->
          IF prev[k].insightId = id
          THEN [prev[k] EXCEPT !.answer = answer, !.isLoading = FALSE]
          ELSE prev[k]]
  ELSE Append(prev, [insightId |-> id, answer |-> answer, isLoading |-> FALSE])

SetAnswerDropText(prev, id, answer) ==
  [k \in 1..Len(prev) |->
     IF prev[k].insightId = id
     THEN [prev[k] EXCEPT !.isLoading = FALSE]
     ELSE prev[k]]

SetAnswerKeepLoading(prev, id, answer) ==
  [k \in 1..Len(prev) |->
     IF prev[k].insightId = id
     THEN [prev[k] EXCEPT !.answer = answer]
     ELSE prev[k]]

SetAnswerAll(prev, id, answer) ==
  [k \in 1..Len(prev) |->
     [prev[k] EXCEPT !.answer = answer, !.isLoading = FALSE]]

SetAnswer(prev, id, answer) ==
  [k \in 1..Len(prev) |->
     IF prev[k].insightId = id
     THEN [prev[k] EXCEPT !.answer = answer, !.isLoading = FALSE]
     ELSE prev[k]]

\* `${insight.title}: ${insight.action}`
\* (an undefined value interpolates as the text "undefined")
ActionText(insight) ==
  IF "action" \in DOMAIN insight THEN insight.action ELSE "undefined"

Question(insight) == insight.title \o ": " \o ActionText(insight)

\* new Date(): a logical clock, one tick per settled promise.
Now == 1 + (nFetch - Cardinality(fetches)) + (nGen - Cardinality(genCalls))

\* ------------------------------------------------------------------ Init
Init ==
  /\ insights = <<>>
  /\ isLoading = TRUE
  /\ lastUpdated = Null
  /\ aiAnswers = <<>>
  /\ fetches = {}
  /\ nFetch = 0
  /\ genCalls = {}
  /\ nGen = 0
  /\ clicks = [i \in Ids |-> 0]
  /\ lastFetch = [kind |-> "none"]
  /\ users = <<>>
  /\ userCalls = <<>>

\* ---------------------------------------------------------- loadInsights
\* Lines 28-31: setIsLoading(true), then the await on getAIInsights().
LoadInsightsCall ==
  /\ nFetch < MaxLoads
  /\ isLoading' = TRUE
  /\ nFetch' = nFetch + 1
  /\ fetches' = fetches \cup {nFetch + 1}
  /\ UNCHANGED userVars
  /\ UNCHANGED <<insights, lastUpdated, aiAnswers, genCalls, nGen, clicks,
                 lastFetch>>

\* useEffect(() => { loadInsights(); }, []): the call made on mount.
UseEffect ==
  /\ nFetch = 0
  /\ LoadInsightsCall

\* A later invocation of loadInsights on the mounted component.
Reload ==
  /\ nFetch > 0
  /\ LoadInsightsCall

\* The list stored on success: setInsights(newInsights)
StoredOnSuccessMerge(prev, newInsights) == prev \o newInsights

StoredOnSuccess(prev, newInsights) == newInsights

\* The timestamp stored on failure: the catch branch has no setLastUpdated.
StampOnFailureSet(prev, t) == t

StampOnFailure(prev, t) == prev

\* Lines 31-33 and 47-49: a fetch resolved with newInsights.
FetchResolveClearsAnswers ==
  \E f \in fetches, newInsights \in FetchResults :
    /\ fetches' = fetches \ {f}
    /\ insights' = newInsights
    /\ lastUpdated' = Now
    /\ isLoading' = FALSE
    /\ aiAnswers' = <<>>
    /\ lastFetch' = [kind |-> "resolved", value |-> newInsights]
    /\ UNCHANGED userVars
    /\ UNCHANGED <<nFetch, genCalls, nGen, clicks>>

FetchResolve ==
  \E f \in fetches, newInsights \in FetchResults :
    /\ fetches' = fetches \ {f}
    /\ insights' = StoredOnSuccess(insights, newInsights)
    /\ lastUpdated' = Now
    /\ isLoading' = FALSE
    /\ lastFetch' = [kind |-> "resolved", value |-> newInsights]
    /\ UNCHANGED userVars
    /\ UNCHANGED <<aiAnswers, nFetch, genCalls, nGen, clicks>>

\* Lines 34-49: a fetch rejected.
FetchRejectStaysLoading ==
  \E f \in fetches :
    /\ fetches' = fetches \ {f}
    /\ insights' = FallbackInsights
    /\ lastFetch' = [kind |-> "rejected"]
    /\ UNCHANGED userVars
    /\ UNCHANGED <<isLoading, lastUpdated, aiAnswers, nFetch, genCalls, nGen,
                   clicks>>

FetchRejectNoFallback ==
  \E f \in fetches :
    /\ fetches' = fetches \ {f}
    /\ isLoading' = FALSE
    /\ lastFetch' = [kind |-> "rejected"]
    /\ UNCHANGED userVars
    /\ UNCHANGED <<insights, lastUpdated, aiAnswers, nFetch, genCalls, nGen,
                   clicks>>

FetchReject ==
  \E f \in fetches :
    /\ fetches' = fetches \ {f}
    /\ insights' = FallbackInsights
    /\ lastUpdated' = StampOnFailure(lastUpdated, Now)
    /\ isLoading' = FALSE
    /\ lastFetch' = [kind |-> "rejected"]
    /\ UNCHANGED userVars
    /\ UNCHANGED <<aiAnswers, nFetch, genCalls, nGen, clicks>>

\* ----------------------------------------------------- handleActionClick
\* Line 53: if (!insight.action) return;
ClickNoAction(insight) ==
  /\ ~HasAction(insight)
  /\ UNCHANGED vars

\* Lines 56-61: an entry exists, remove it and return.  Outstanding calls
\* for this id are not cancelled; `stale` records that their request was
\* toggled off.
ToggleOff(insight) ==
  /\ HasAction(insight)
  /\ HasAnswer(aiAnswers, insight.id)
  /\ aiAnswers' = RemoveAnswer(aiAnswers, insight.id)
  /\ genCalls' = {IF c.insightId = insight.id
                  THEN [c EXCEPT !.stale = TRUE] ELSE c : c \in genCalls}
  /\ clicks' = [clicks EXCEPT ![insight.id] = @ + 1]
  /\ UNCHANGED userVars
  /\ UNCHANGED <<insights, isLoading, lastUpdated, fetches, nFetch, nGen,
                 lastFetch>>

\* Lines 63-78: no entry, add the loading entry and issue the call.
ToggleOn(insight) ==
  /\ HasAction(insight)
  /\ ~HasAnswer(aiAnswers, insight.id)
  /\ nGen < MaxCalls
  /\ aiAnswers' = AddLoading(aiAnswers, insight.id)
  /\ nGen' = nGen + 1
  /\ genCalls' = genCalls \cup
       {[call |-> nGen + 1, insightId |-> insight.id,
         question |-> Question(insight), stale |-> FALSE]}
  /\ clicks' = [clicks EXCEPT ![insight.id] = @ + 1]
  /\ UNCHANGED userVars
  /\ UNCHANGED <<insights, isLoading, lastUpdated, fetches, nFetch,
                 lastFetch>>

\* handleActionClick(insight), lines 52-78.
Click(insight) ==
  \/ ClickNoAction(insight)
  \/ ToggleOff(insight)
  \/ ToggleOn(insight)

\* handleActionClick on an insight of the rendered list (the list is
\* rendered only while isLoading is false, line 148).
HandleActionClick ==
  /\ ~isLoading
  /\ \E k \in 1..Len(insights) : Click(insights[k])

\* The continuation of call c after the await: `answer` is written by
\* lines 80-84 (resolved) or 87-98 (rejected, the apology text).
GenSettle(c, answer) ==
  /\ c \in genCalls
  /\ genCalls' = genCalls \ {c}
  /\ aiAnswers' = SetAnswer(aiAnswers, c.insightId, answer)
  /\ UNCHANGED userVars
  /\ UNCHANGED <<insights, isLoading, lastUpdated, fetches, nFetch, nGen,
                 clicks, lastFetch>>

\* Lines 78-84: a generator call resolved with an answer.
GenResolve ==
  \E c \in genCalls, answer \in AnswerTexts : GenSettle(c, answer)

\* Lines 85-99: a generator call rejected.
GenReject ==
  \E c \in genCalls : GenSettle(c, ApologyText)

Next ==
  \/ UseEffect
  \/ Reload
  \/ FetchResolve
  \/ FetchReject
  \/ HandleActionClick
  \/ GenResolve
  \/ GenReject

Spec == Init /\ [][Next]_vars

\* The effect of lines 102-104 runs once the component has mounted, and
\* every call of getAIInsights() settles.
FairSpec ==
  /\ Spec
  /\ WF_vars(UseEffect)
  /\ WF_vars(FetchResolve \/ FetchReject)

TypeOK ==
  /\ isLoading \in BOOLEAN
  /\ lastUpdated \in {Null} \cup (1..(MaxLoads + MaxCalls))
  /\ nFetch \in 0..MaxLoads
  /\ nGen \in 0..MaxCalls
  /\ \A k \in 1..Len(aiAnswers) : aiAnswers[k].isLoading \in BOOLEAN

\* ============================================================= checkUser
\* checkUser (lines 222-248) awaits three calls in turn: currentUser(),
\* db.user.findUnique() and db.user.create().  An invocation is a record in
\* userCalls; `pc` names the call it is waiting for.  Each await settles in
\* a step of its own, so the invocations interleave at the awaits.  The
\* store reads or writes the table at the step in which its call settles.

\* A nullable value is a sequence: <<>> is null, <<x>> is x.
\* Users the identity provider can report for a request.
Ada == [id |-> "user_a", firstName |-> "Ada", lastName |-> "Lovelace",
        imageUrl |-> "https://img/a.png",
        emailAddresses |-> << [emailAddress |-> "ada@example.org"],
                              [emailAddress |-> "countess@example.org"] >>]

Grace == [id |-> "user_g", firstName |-> "Grace", lastName |-> "Hopper",
          imageUrl |-> "https://img/g.png",
          emailAddresses |-> << [emailAddress |-> "grace@example.org"] >>]

ClerkUsers == {Ada, Grace}

\* What `await currentUser()` can resolve to: null or a signed-in user.
CurrentUserResults == {<<>>} \cup {<<u>> : u \in ClerkUsers}

\* The `data` argument of db.user.create (lines 237-242).
NewUserData(user) ==
  [clerkUserId |-> user.id,
   name        |-> user.firstName \o " " \o user.lastName,
   imageUrl    |-> user.imageUrl,
   email       |-> user.emailAddresses[1].emailAddress]

\* db.user.findUnique({where: {clerkUserId}}): the row or null.
FindUnique(rows, clerkUserId) ==
  LET hits == SelectSeq(rows, LAMBDA r : r.clerkUserId = clerkUserId)
  IN  IF hits = <<>> THEN <<>> ELSE <<hits[1]>>

\* The user table rejects a second row with the same clerkUserId: the
\* column is a unique key, as a findUnique() on it alone requires.
UniqueViolationNever(rows, data) == FALSE

UniqueViolation(rows, data) ==
  \E k \in 1..Len(rows) : rows[k].clerkUserId = data.clerkUserId

\* if (!user) return null;
IsSignedOut(user) == user = <<>>

\* if (!loggedInUser) { ... create ... }
NeedsCreate(loggedInUser) == loggedInUser = <<>>

\* The invocation userCalls[k] with some fields replaced.
UpdateCall(k, c) == [userCalls EXCEPT ![k] = c]

\* An invocation of checkUser: runs up to `await currentUser()`.
CheckUserCall ==
  /\ Len(userCalls) < MaxUserCalls
  /\ userCalls' = Append(userCalls,
                         [pc |-> "currentUser", user |-> <<>>,
                          loggedInUser |-> <<>>, result |-> <<>>,
                          storeCalls |-> 0, created |-> FALSE])
  /\ UNCHANGED users
  /\ UNCHANGED panelVars

\* Lines 223-232: currentUser() resolved; return null, or issue findUnique.
CurrentUserSettle ==
  \E k \in 1..Len(userCalls), user \in CurrentUserResults :
    /\ userCalls[k].pc = "currentUser"
    /\ userCalls' =
         IF IsSignedOut(user)
         THEN UpdateCall(k, [userCalls[k] EXCEPT !.pc = "returned",
                                                 !.user = user,
                                                 !.result = <<>>])
         ELSE UpdateCall(k, [userCalls[k] EXCEPT !.pc = "findUnique",
                                                 !.user = user,
                                                 !.storeCalls = @ + 1])
    /\ UNCHANGED users
    /\ UNCHANGED panelVars

\* Lines 228-247: findUnique() resolved; issue create, or return the row.
FindUniqueSettle ==
  \E k \in 1..Len(userCalls) :
    /\ userCalls[k].pc = "findUnique"
    /\ LET loggedInUser == FindUnique(users, userCalls[k].user[1].id)
       IN  userCalls' =
             IF NeedsCreate(loggedInUser)
             THEN UpdateCall(k, [userCalls[k] EXCEPT
                                   !.pc = "create",
                                   !.loggedInUser = loggedInUser,
                                   !.storeCalls = @ + 1])
             ELSE UpdateCall(k, [userCalls[k] EXCEPT
                                   !.pc = "returned",
                                   !.loggedInUser = loggedInUser,
                                   !.result = loggedInUser])
    /\ UNCHANGED users
    /\ UNCHANGED panelVars

\* Lines 236-244: create() resolved with the new row, which is returned.
CreateResolve ==
  \E k \in 1..Len(userCalls) :
    /\ userCalls[k].pc = "create"
    /\ LET data == NewUserData(userCalls[k].user[1])
       IN  /\ ~UniqueViolation(users, data)
           /\ users' = Append(users, data)
           /\ userCalls' = UpdateCall(k, [userCalls[k] EXCEPT
                                            !.pc = "returned",
                                            !.result = <<data>>,
                                            !.created = TRUE])
    /\ UNCHANGED panelVars

\* Line 236: create() rejected; checkUser has no catch, so it throws.
CreateReject ==
  \E k \in 1..Len(userCalls) :
    /\ userCalls[k].pc = "create"
    /\ UniqueViolation(users, NewUserData(userCalls[k].user[1]))
    /\ userCalls' = UpdateCall(k, [userCalls[k] EXCEPT !.pc = "threw"])
    /\ UNCHANGED users
    /\ UNCHANGED panelVars

UserNext ==
  \/ CheckUserCall
  \/ CurrentUserSettle
  \/ FindUniqueSettle
  \/ CreateResolve
  \/ CreateReject

UserSpec == Init /\ [][UserNext]_vars

UserTypeOK ==
  /\ Len(userCalls) <= MaxUserCalls
  /\ \A k \in 1..Len(userCalls) :
       /\ userCalls[k].pc \in {"currentUser", "findUnique", "create",
                               "returned", "threw"}
       /\ userCalls[k].user \in CurrentUserResults
       /\ userCalls[k].storeCalls \in 0..2
       /\ userCalls[k].created \in BOOLEAN

\* ================================================================ claims
\* The step in which the continuation of generator call c runs.
Settles(c) == c \in genCalls /\ genCalls' = genCalls \ {c}

\* The step in which the continuation of a fetch runs, by its outcome.
FetchSettles(kind) ==
  /\ \E f \in fetches : fetches' = fetches \ {f}
  /\ lastFetch'.kind = kind

NoEntryFor(id) == \A k \in 1..Len(aiAnswers) : aiAnswers[k].insightId # id

LacksActionLabel(insight) ==
  "action" \notin DOMAIN insight \/ insight.action = ""

\* C1 - Staleness law: the completion (success or failure) of a generator
\* call whose request was toggled off after it was issued neither creates
\* nor modifies any entry of the answer map, also when the same insight was
\* requested again in between.
StalenessLaw ==
  [][\A c \in genCalls :
       (Settles(c) /\ c.stale) => aiAnswers' = aiAnswers]_vars

\* C2 - A generator completion that finds no entry with its insight id in
\* the answer map leaves the answer map unchanged.
AbsentIdCompletionIsNoOp ==
  [][\A c \in genCalls :
       (Settles(c) /\ NoEntryFor(c.insightId)) => aiAnswers' = aiAnswers]_vars

\* The call of an id that was toggled off has completed and the id has no
\* entry, while another id shows an answer.
AbsentIdCompletionWitness ==
  \E i \in Ids :
    /\ clicks[i] = 2
    /\ NoEntryFor(i)
    /\ \A c \in genCalls : c.insightId # i
    /\ Len(aiAnswers) > 0

\* C3 - In every reachable state the answer map holds at most one entry
\* per insight id.
AtMostOneEntryPerId ==
  \A j, k \in 1..Len(aiAnswers) :
    aiAnswers[j].insightId = aiAnswers[k].insightId => j = k

\* An id was requested, toggled off and requested again while the call of
\* the first request is still outstanding.
AtMostOneEntryWitness ==
  \E k \in 1..Len(aiAnswers) :
    /\ clicks[aiAnswers[k].insightId] >= 3
    /\ \E c \in genCalls : c.insightId = aiAnswers[k].insightId /\ c.stale

\* C4 - Toggle law: an insight id whose handleActionClick has run exactly
\* twice has no entry, before and after its generator call completes.
ToggleLaw ==
  \A i \in Ids : clicks[i] = 2 => NoEntryFor(i)

\* Two clicks on an id, and the call of the first click has completed.
ToggleLawWitness ==
  \E i \in Ids :
    /\ clicks[i] = 2
    /\ nGen = 1
    /\ genCalls = {}

\* C5 - After a fetch resolves with a list, the insight sequence is that
\* list exactly (same records, same order, nothing of the previous list
\* kept), the panel is not loading and lastUpdated is non-null.
FetchSuccessReplacesList ==
  [][FetchSettles("resolved")
       => /\ insights' = lastFetch'.value
          /\ isLoading' = FALSE
          /\ lastUpdated' # Null]_vars

\* Two fetches have completed and the list shown is a returned list of two
\* records.
FetchSuccessWitness ==
  /\ lastFetch.kind = "resolved"
  /\ nFetch = 2
  /\ fetches = {}
  /\ Len(insights) = 2
  /\ lastUpdated # Null
  /\ isLoading = FALSE

\* C6 - After a fetch rejects, the insight sequence is exactly one record
\* with id fallback-1, type info and title "AI Temporarily Unavailable",
\* and the panel is not loading.
FetchFailureShowsFallback ==
  [][FetchSettles("rejected")
       => /\ Len(insights') = 1
          /\ insights'[1].id = "fallback-1"
          /\ insights'[1].type = "info"
          /\ insights'[1].title = "AI Temporarily Unavailable"
          /\ isLoading' = FALSE]_vars

\* A fetch rejected after an earlier fetch had succeeded.
FetchFailureWitness ==
  /\ lastFetch.kind = "rejected"
  /\ Len(insights) = 1
  /\ insights[1].id = "fallback-1"
  /\ lastUpdated # Null
  /\ isLoading = FALSE

OnlySuccessSetsLastUpdated ==
  [][/\ FetchSettles("rejected") => lastUpdated' = lastUpdated
     /\ lastUpdated' # lastUpdated => FetchSettles("resolved")
    ]_vars

\* The only fetch so far rejected and lastUpdated is still null.
FailedFirstFetchWitness ==
  /\ lastFetch.kind = "rejected"
  /\ nFetch = 1
  /\ fetches = {}
  /\ insights # <<>>
  /\ insights[1].id = "fallback-1"
  /\ lastUpdated = Null

\* C9 - handleActionClick on an insight whose action is absent or empty
\* changes nothing of the panel and issues no generator call.
NoActionClickIsNoOp ==
  [][\A k \in 1..Len(insights) :
       (LacksActionLabel(insights[k]) /\ Click(insights[k]))
         => UNCHANGED <<insights, isLoading, lastUpdated, aiAnswers,
                        genCalls, nGen>>]_vars

\* A card with an empty label is shown next to a card whose answer is
\* being generated: a click on the former is possible and leaves this state
\* as it is.
NoActionClickWitness ==
  /\ isLoading = FALSE
  /\ \E k \in 1..Len(insights) :
       "action" \in DOMAIN insights[k] /\ insights[k].action = ""
  /\ \E k \in 1..Len(insights) : ~NoEntryFor(insights[k].id)
  /\ genCalls # {}

\* C10 - Every click on a labelled insight that has no entry appends the
\* entry {answer: "", isLoading: true} and issues exactly one generator
\* call, with the question "<title>: <action>"; this includes a click
\* after an earlier answer for the same id was removed.
ToggleOnIsFresh ==
  [][\A k \in 1..Len(insights) :
       (/\ ~LacksActionLabel(insights[k])
        /\ NoEntryFor(insights[k].id)
        /\ Click(insights[k]))
       => /\ aiAnswers' = Append(aiAnswers,
               [insightId |-> insights[k].id, answer |-> "",
                isLoading |-> TRUE])
          /\ nGen' = nGen + 1
          /\ genCalls' = genCalls \cup
               {[call |-> nGen', insightId |-> insights[k].id,
                 question |-> insights[k].title \o ": " \o insights[k].action,
                 stale |-> FALSE]}]_vars

\* The insight is requested again after its first call completed and its
\* entry was removed.
ToggleOnAgainWitness ==
  \E k \in 1..Len(aiAnswers) :
    /\ clicks[aiAnswers[k].insightId] = 3
    /\ aiAnswers[k].isLoading
    /\ Cardinality(genCalls) = 1
    /\ nGen = 2

\* The entries of the answer map other than those of `id`, in order.
EntriesNotOf(answers, id) == SelectSeq(answers, LAMBDA a : a.insightId # id)

\* C11 - When a generator call resolves with text T and its insight id has
\* an entry, that entry becomes {answer: T, isLoading: false}; the number
\* of entries, their ids and the other entries are as before.
GenSuccessWritesAnswer ==
  [][\A c \in genCalls : \A T \in AnswerTexts :
       (GenSettle(c, T) /\ ~NoEntryFor(c.insightId))
         => /\ Len(aiAnswers') = Len(aiAnswers)
            /\ \A k \in 1..Len(aiAnswers) :
                 /\ aiAnswers'[k].insightId = aiAnswers[k].insightId
                 /\ aiAnswers[k].insightId = c.insightId
                      => /\ aiAnswers'[k].answer = T
                         /\ aiAnswers'[k].isLoading = FALSE]_vars

\* An entry shows a generated answer and no call for its id is outstanding.
GenSuccessWitness ==
  \E k \in 1..Len(aiAnswers) :
    /\ aiAnswers[k].answer \in AnswerTexts
    /\ aiAnswers[k].isLoading = FALSE
    /\ \A c \in genCalls : c.insightId # aiAnswers[k].insightId

\* C12 - When a generator call rejects and its insight id has an entry,
\* that entry becomes {answer: <apology text>, isLoading: false}; the
\* insight list, the loading flag, lastUpdated and the other entries are
\* unchanged.
GenFailureWritesApology ==
  [][\A c \in genCalls :
       (GenSettle(c, ApologyText) /\ ~NoEntryFor(c.insightId))
         => /\ Len(aiAnswers') = Len(aiAnswers)
            /\ \A k \in 1..Len(aiAnswers) :
                 IF aiAnswers[k].insightId = c.insightId
                 THEN aiAnswers'[k] =
                        [insightId |-> c.insightId,
                         answer |-> "Sorry, I was unable to generate a detailed answer. Please try again.",
                         isLoading |-> FALSE]
                 ELSE aiAnswers'[k] = aiAnswers[k]
            /\ UNCHANGED <<insights, isLoading, lastUpdated>>]_vars

\* An entry shows the apology text next to an entry of another id.
GenFailureWitness ==
  /\ Len(aiAnswers) = 2
  /\ \E k \in 1..2 :
       /\ aiAnswers[k].answer =
            "Sorry, I was unable to generate a detailed answer. Please try again."
       /\ aiAnswers[k].isLoading = FALSE

\* C13 - loadInsights never modifies the answer map: neither the step that
\* issues a fetch nor the step that settles one (resolved or rejected)
\* changes any entry.
LoadKeepsAnswers ==
  [][(nFetch' # nFetch \/ fetches' # fetches) => aiAnswers' = aiAnswers]_vars

\* After a reload has settled, a loading entry is still in the map although
\* its insight id is no longer in the list.
LoadKeepsAnswersWitness ==
  /\ nFetch = 2
  /\ fetches = {}
  /\ \E k \in 1..Len(aiAnswers) :
       /\ aiAnswers[k].isLoading
       /\ \A n \in 1..Len(insights) : insights[n].id # aiAnswers[k].insightId

\* C15 - Requests for distinct ids are independent: a click on insight i
\* or the completion of a call for insight i leaves the entries of every
\* other id as they are.
DistinctIdsIndependent ==
  [][/\ \A c \in genCalls :
          Settles(c) => EntriesNotOf(aiAnswers', c.insightId)
                          = EntriesNotOf(aiAnswers, c.insightId)
     /\ \A k \in 1..Len(insights) :
          Click(insights[k]) => EntriesNotOf(aiAnswers', insights[k].id)
                                  = EntriesNotOf(aiAnswers, insights[k].id)
    ]_vars

\* Two calls were outstanding at once and the later request was answered
\* first: the first entry is loading, the second one shows an answer.
DistinctIdsWitness ==
  /\ Len(aiAnswers) = 2
  /\ aiAnswers[1].insightId # aiAnswers[2].insightId
  /\ aiAnswers[1].isLoading
  /\ aiAnswers[2].answer \in AnswerTexts
  /\ Cardinality(genCalls) = 1

\* C16 - A loading entry stays loading, with empty text, in every step
\* other than the completion of the call issued for it and a toggle-off of
\* its id.
PendingUntilOwnCompletionOrToggleOff ==
  [][\A k \in 1..Len(aiAnswers) :
       aiAnswers[k].isLoading
         => \/ \E j \in 1..Len(aiAnswers') :
                 aiAnswers'[j] = [insightId |-> aiAnswers[k].insightId,
                                  answer |-> "", isLoading |-> TRUE]
            \/ \E c \in genCalls :
                 /\ c.insightId = aiAnswers[k].insightId
                 /\ ~c.stale
                 /\ Settles(c)
            \/ \E n \in 1..Len(insights) :
                 /\ insights[n].id = aiAnswers[k].insightId
                 /\ ToggleOff(insights[n])]_vars

\* The state of the answer of an id: Absent, Pending or Resolved.
AnswerState(answers, id) ==
  IF \A k \in 1..Len(answers) : answers[k].insightId # id THEN "Absent"
  ELSE IF \E k \in 1..Len(answers) :
            answers[k].insightId = id /\ answers[k].isLoading THEN "Pending"
  ELSE "Resolved"

\* C17 - For each id the answer state changes only along Absent -> Pending,
\* Pending -> Resolved, Pending -> Absent and Resolved -> Absent.
AnswerStateEdges ==
  [][\A i \in Ids :
       \/ AnswerState(aiAnswers', i) = AnswerState(aiAnswers, i)
       \/ <<AnswerState(aiAnswers, i), AnswerState(aiAnswers', i)>> \in
            { <<"Absent", "Pending">>, <<"Pending", "Resolved">>,
              <<"Pending", "Absent">>, <<"Resolved", "Absent">> }]_vars

\* An id went Absent, Pending, Absent, Pending, Resolved.
AnswerStateWitness ==
  \E i \in Ids :
    /\ clicks[i] = 3
    /\ AnswerState(aiAnswers, i) = "Resolved"

\* C18 - Every entry with isLoading = true has the empty answer text.
LoadingHasEmptyText ==
  \A k \in 1..Len(aiAnswers) :
    aiAnswers[k].isLoading => aiAnswers[k].answer = ""

\* A loading entry of a re-requested id while both calls issued for the id
\* are outstanding.
LoadingEmptyWitness ==
  \E k \in 1..Len(aiAnswers) :
    /\ aiAnswers[k].isLoading
    /\ Cardinality({c \in genCalls : c.insightId = aiAnswers[k].insightId}) = 2

\* C19 - With loadInsights invoked again while a fetch is outstanding, the
\* panel stays loading until the last outstanding fetch has settled, and a
\* fetch that settles after the most recently issued one has settled does
\* not change the list shown.
LatestLoadWins ==
  [][\A f \in fetches :
       fetches' = fetches \ {f}
         => /\ fetches' # {} => isLoading' = TRUE
            /\ (f < nFetch /\ nFetch \notin fetches)
                 => insights' = insights]_vars

\* The list a settled fetch leaves on display: the returned list, or the
\* fallback record after a failure.
Renderable ==
  /\ isLoading = FALSE
  /\ lastFetch.kind # "none"
  /\ insights = IF lastFetch.kind = "resolved" THEN lastFetch.value
                ELSE FallbackInsights

\* C14 - With every fetch settling, a panel that is loading (on mount or
\* after an invocation of loadInsights) eventually shows a list: the one a
\* fetch returned, or the fallback record after a failure.
LoadingEndsLoaded == isLoading = TRUE ~> Renderable

\* The panel shows the fallback after the second of two fetches failed while
\* an answer call has failed too.
LoadingEndsWitness ==
  /\ Renderable
  /\ nFetch = 2
  /\ lastFetch.kind = "rejected"
  /\ \E k \in 1..Len(aiAnswers) : aiAnswers[k].answer = ApologyText

\* Rows of the user table with the given clerkUserId.
RowsOf(clerkUserId) ==
  {k \in 1..Len(users) : users[k].clerkUserId = clerkUserId}

====
